---- MODULE Spec2Model ----
(***************************************************************************)
(* Model of s3_deploy/main.py: one deployment of a create-react-app build  *)
(* directory to an S3 prefix (Deploy.syncToS3) followed by the CloudFront  *)
(* invalidation (Deploy.clearCloudFront).                                   *)
(*                                                                         *)
(* File names, object keys, entity tags and manifest bodies are strings,   *)
(* handled character by character as the code's regular expressions and    *)
(* string methods handle them.  A behaviour is a sequence of runs of the   *)
(* program over the same build directory and the same bucket: a run either *)
(* reaches the end of main() or stops at a failing remote call, and the    *)
(* operator may start the program again.                                   *)
(*                                                                         *)
(* Modelling assumptions about the remote services:                        *)
(*  - list_objects_v2 returns the whole deployment in one page, in key     *)
(*    order, and no other prefix of the bucket extends this deployment's;  *)
(*  - the ETag of an object written by put_object is the quoted MD5 of its *)
(*    body;                                                                *)
(*  - bodies are printable ASCII without apostrophes or backslashes, so    *)
(*    str() of the bytes read only wraps them in b'...'.                   *)
(***************************************************************************)
EXTENDS Integers, Sequences, FiniteSets, TLC

\* ------------------------------------------------------------------ bounds
MaxTime     == 2    \* initial objects carry LastModified in 1..MaxTime
MaxVersions == 2    \* --maintain-versions ranges over 0..MaxVersions
MaxRuns     == 2    \* how many times the program is started

\* ------------------------------------------------------- program constants
CACHE_SECONDS  == 90 * 24 * 60 * 60
NO_CACHE_FILES == << "index.html", "asset-manifest.json" >>

\* 'max-age=%d, public' % (CACHE_SECONDS)
sCacheAlways == "max-age=" \o ToString(CACHE_SECONDS) \o ", public"
sCacheNever  == "max-age=0, no-cache, must-revalidate, proxy-revalidate, no-store"

\* --------------------------------------------------------- string helpers
\* s begins with p
StartsWith(s, p) == Len(s) >= Len(p) /\ SubSeq(s, 1, Len(p)) = p

\* re.match(pattern, s) for a literal pattern: anchored at the start of s
ReMatch(sPattern, s) == StartsWith(s, sPattern)

\* re.sub(r'^\./', '', s): a leading "./" removed
StripDotSlash(s) == IF StartsWith(s, "./") THEN SubSeq(s, 3, Len(s)) ELSE s

\* Position of the first occurrence of sub in s at or after i, 0 when none
RECURSIVE StrFind(_, _, _)
StrFind(s, sub, i) ==
    IF i + Len(sub) - 1 > Len(s) THEN 0
    ELSE IF SubSeq(s, i, i + Len(sub) - 1) = sub THEN i
    ELSE StrFind(s, sub, i + 1)

\* str.replace(old, ""): every occurrence of old removed, left to right
RECURSIVE StrRemoveAll(_, _)
StrRemoveAll(s, old) ==
    LET i == StrFind(s, old, 1)
    IN  IF i = 0 THEN s
        ELSE SubSeq(s, 1, i - 1)
               \o StrRemoveAll(SubSeq(s, i + Len(old), Len(s)), old)

\* re.sub(r'^"(.*)"$', '\\1', s): surrounding double quotes stripped
\* (StripQuotes_kept: the tag as S3 reports it, quotes left in place)
StripQuotes_kept(s) == s
StripQuotes(s) ==
    IF Len(s) >= 2 /\ SubSeq(s, 1, 1) = "\"" /\ SubSeq(s, Len(s), Len(s)) = "\""
    THEN SubSeq(s, 2, Len(s) - 1)
    ELSE s

\* re.findall(r'"url": "/(.*?)"', s): the shortest text up to the next
\* double quote after every occurrence of the opening, scanning onwards
\* from the end of each match
RECURSIVE FindAllUrls(_)
FindAllUrls(s) ==
    LET sOpen == "\"url\": \"/"
        i     == StrFind(s, sOpen, 1)
    IN  IF i = 0 THEN << >>
        ELSE LET iStart == i + Len(sOpen)
                 j      == StrFind(s, "\"", iStart)
             IN  IF j = 0 THEN << >>
                 ELSE << SubSeq(s, iStart, j - 1) >>
                        \o FindAllUrls(SubSeq(s, j + 1, Len(s)))

\* str(bytes)
BytesStr(sBody) == "b'" \o sBody \o "'"

\* hashlib.md5 of a file's bytes, as a hex digest: an injective tag of the
\* content (collisions are not modelled)
md5Checksum(sBody) == "md5(" \o sBody \o ")"

\* '%s/%s' % (sPrefix, sFile)
JoinKey(sPfx, sFile) == sPfx \o "/" \o sFile

Range(seq) == { seq[i] : i \in 1..Len(seq) }

\* searchList: the index (from 0) of the needle, or False.  False is
\* written NotFound: the callers test the result by identity ("is False"),
\* which index 0 does not satisfy.
NotFound == -1
\* (searchList_falsy: the result read by truth value, so that index 0 counts
\* as not found)
searchList_falsy(sNeedle, aHaystack) ==
    IF \E i \in 2..Len(aHaystack) : aHaystack[i] = sNeedle
    THEN (CHOOSE i \in 2..Len(aHaystack) :
             aHaystack[i] = sNeedle
             /\ \A j \in 1..(i-1) : aHaystack[j] # sNeedle) - 1
    ELSE NotFound
searchList(sNeedle, aHaystack) ==
    IF \E i \in 1..Len(aHaystack) : aHaystack[i] = sNeedle
    THEN (CHOOSE i \in 1..Len(aHaystack) :
             aHaystack[i] = sNeedle
             /\ \A j \in 1..(i-1) : aHaystack[j] # sNeedle) - 1
    ELSE NotFound
\* ------------------------------------------------------- the files at hand
sProduct    == "app"
sDeployment == "dev"
\* 'deployments/%s/%s' % (sProduct, sDeployment)
DeployPrefix == "deployments" \o "/" \o sProduct \o "/" \o sDeployment

INDEX    == "index.html"
ASSETS   == "asset-manifest.json"
AJS      == "a.js"
BJS      == "b.js"
PM1      == "precache-manifest.1.js"
PM2      == "precache-manifest.2.js"
NESTEDPM == "static/precache-manifest.s.js"

\* Bodies.  A precache manifest is the build tool's list of
\* {"revision": ..., "url": "/path"} entries.
HTML1   == "<html>1"
JSON1   == "{\"main.js\": \"/a.js\"}"
JS_OLD  == "js0"
JS_NEW  == "js1"
MF_A    == "[{\"revision\": \"r\", \"url\": \"/a.js\"}]"
MF_B    == "[{\"url\": \"/b.js\"}, {\"url\": \"/index.html\"}]"

\* A file of the build directory, as os.walk('.') meets it
DirEntry(sRoot, sFile, sBody) == [root |-> sRoot, file |-> sFile, body |-> sBody]

\* The build directories considered: goToBuildDir demands the two
\* NO_CACHE_FILES; the rest of the build varies.
BuildDirs ==
    LET base   == { DirEntry(".", INDEX, HTML1), DirEntry(".", ASSETS, JSON1) }
        script == { DirEntry(".", AJS, JS_NEW) }
        pm     == { DirEntry(".", PM2, MF_B) }
        nested == { DirEntry("./static", "precache-manifest.s.js", MF_A) }
    IN  { base, base \cup script, base \cup pm \cup nested }

\* An object of the bucket
S3Object(sBody, sETag, iModified, sCache) ==
    [body |-> sBody, etag |-> sETag, modified |-> iModified, cache |-> sCache]

\* The ETag S3 reports for an object written in one part: its MD5, quoted
ETagOf(sBody) == "\"" \o md5Checksum(sBody) \o "\""

\* The keys of the deployment in the order list_objects_v2 returns them
\* (ascending byte order)
ListOrder ==
    << JoinKey(DeployPrefix, AJS), JoinKey(DeployPrefix, ASSETS),
       JoinKey(DeployPrefix, BJS), JoinKey(DeployPrefix, INDEX),
       JoinKey(DeployPrefix, PM1), JoinKey(DeployPrefix, PM2),
       JoinKey(DeployPrefix, NESTEDPM) >>

\* The objects that may lie under a key: a set of sets of <<key, object>>
\* pairs, the empty set standing for "no object"
Left(sFile, bodies, times) ==
    { {} } \cup { { << JoinKey(DeployPrefix, sFile), S3Object(b, ETagOf(b), t, "") >> } :
                    b \in bodies, t \in times }

Present(sFile, sBody) == CHOOSE x \in Left(sFile, {sBody}, {1}) : x # {}

\* The bucket contents considered at the first start of the program: an
\* earlier deployment of the site (or none), an old a.js (or none), and up to two manifests of earlier builds, of any age
InitialBuckets ==
    { site \cup a \cup p1 \cup p2 :
        site \in { {}, Present(INDEX, HTML1) \cup Present(ASSETS, JSON1)
                         \cup Present(BJS, JS_OLD) \cup Present(NESTEDPM, MF_A) },
        a  \in Left(AJS, {JS_OLD}, {1}),
        p1 \in Left(PM1, {MF_A}, 1..MaxTime),
        p2 \in Left(PM2, {MF_B}, 1..MaxTime) }

\* A set of <<key, object>> pairs as a function from key to object
AsBucket(pairs) ==
    [ k \in { pr[1] : pr \in pairs } |-> (CHOOSE pr \in pairs : pr[1] = k)[2] ]
\* ------------------------------------------------------------------ state
VARIABLES
    buildDir,        \* the files of the build directory (never written)
    s3,              \* the bucket: object key -> object
    oCmdOptions,     \* the command line's flags
    pc,              \* where the running program is
    run,             \* how many times the program has been started
    now,             \* the clock of the remote store, in seconds
    aS3FileInfo,     \* syncToS3: the remote inventory, in dict order
    aNewBuildFiles,  \* syncToS3: the files to transfer
    aOldS3Files,     \* syncToS3: the files to remove
    aManifests,      \* maintainVersions: the manifests kept
    aExclude,        \* maintainVersions: the exclusion list so far
    iManifest,       \* maintainVersions: manifests fetched so far
    transferred,     \* transferFiles: the files its loop has passed
    removed,         \* removeS3Files: the files its loop has passed
    lastCall,        \* the remote call the last step issued
    s3Initial,       \* history: the bucket at the first start
    s3AtStart,       \* history: the bucket at the start of the current run
    previous         \* history: how the previous run ended, and its lists

vars == << buildDir, s3, oCmdOptions, pc, run, now, aS3FileInfo,
           aNewBuildFiles, aOldS3Files, aManifests, aExclude, iManifest,
           transferred, removed, lastCall, s3Initial, s3AtStart, previous >>

\* ------------------------------------------------- getCwdFiles, md5Checksum
\* sPath = re.sub(r'^\./', '', sRoot + '/' + sFile)
EntryPath(e) == StripDotSlash(e.root \o "/" \o e.file)

getCwdFiles(dir) == { EntryPath(e) : e \in dir }

\* open(sFile, 'rb'), relative to the build directory
ReadFile(dir, sFile) == (CHOOSE e \in dir : EntryPath(e) = sFile).body

\* ---------------------------------------------------------------- getS3Files
\* oResponse['Contents'] of list_objects_v2(Bucket, Prefix): the objects whose
\* key begins with the prefix, in key order
ListObjects(store, sPrefix) ==
    LET aKeys == SelectSeq(ListOrder,
                           LAMBDA k : k \in DOMAIN store /\ StartsWith(k, sPrefix))
    IN  [ i \in 1..Len(aKeys) |->
            [Key |-> aKeys[i], ETag |-> store[aKeys[i]].etag,
             LastModified |-> store[aKeys[i]].modified] ]

\* get_last_modified: the object's modification time as whole seconds
get_last_modified(obj) == obj.LastModified

\* sorted(aContents, key=get_last_modified, reverse=True): newest first,
\* objects of the same second in the order of the listing (the sort is stable)
RECURSIVE SortFrom(_, _)
SortFrom(aContents, t) ==
    IF t < 0 THEN << >>
    ELSE SelectSeq(aContents, LAMBDA o : get_last_modified(o) = t)
           \o SortFrom(aContents, t - 1)

RECURSIVE SortUpTo(_, _, _)
SortUpTo(aContents, t, tMax) ==
    IF t > tMax THEN << >>
    ELSE SelectSeq(aContents, LAMBDA o : get_last_modified(o) = t)
           \o SortUpTo(aContents, t + 1, tMax)

MaxModified(aContents) ==
    IF Len(aContents) = 0 THEN 0
    ELSE CHOOSE t \in { get_last_modified(o) : o \in Range(aContents) } :
           \A o \in Range(aContents) : get_last_modified(o) <= t

\* (SortOldestFirst: the order without reverse=True)
SortOldestFirst(aContents) == SortUpTo(aContents, 0, MaxModified(aContents))
SortNewestFirst(aContents) == SortFrom(aContents, MaxModified(aContents))

\* One entry of aFiles
FileInfo(oContent, sPrefix) ==
    [key      |-> StrRemoveAll(oContent.Key, sPrefix \o "/"),
     etag     |-> StripQuotes(oContent.ETag),
     modified |-> oContent.LastModified]

\* The dict getS3Files returns, as the sequence of its values in insertion
\* (= iteration) order; an empty listing gives the empty dict
getS3Files(store, sPrefix) ==
    LET aContents == SortNewestFirst(ListObjects(store, sPrefix))
    IN  [ i \in 1..Len(aContents) |-> FileInfo(aContents[i], sPrefix) ]

InfoKeys(aInfo) == { aInfo[i].key : i \in 1..Len(aInfo) }
InfoOf(aInfo, sKey) == aInfo[CHOOSE i \in 1..Len(aInfo) : aInfo[i].key = sKey]

\* -------------------------------------------------------------- compareFiles
\* aOldS3Files = list(setS3 - setBuild)
\* (OldS3Files_all: the whole remote inventory)
OldS3Files_all(setBuild, setS3) == setS3
OldS3Files(setBuild, setS3) == setS3 \ setBuild

\* the test of line 210
\* (Changed_noforce: the checksums alone)
Changed_noforce(bForceTransfer, sETag, sMd5) == sETag # sMd5
Changed(bForceTransfer, sETag, sMd5) == bForceTransfer \/ sETag # sMd5

\* the test of line 214
\* (IsManifest_anywhere: re.search; IsManifest_whole: the whole key compared)
IsManifest_anywhere(sFile) == StrFind(sFile, "precache-manifest", 1) # 0
IsManifest_whole(sFile) == sFile = "precache-manifest"
IsManifest(sFile) == ReMatch("precache-manifest", sFile)

\* The two lists compareFiles returns, as sets: Python builds them from sets,
\* so their order is arbitrary and no file is in a list twice
compareFiles(dir, aFiles, aInfo, bForceTransfer) ==
    LET setBuild     == aFiles
        setS3        == InfoKeys(aInfo)
        aCommonFiles == setBuild \cap setS3
    IN  [new |-> (setBuild \ setS3)
                   \cup { f \in aCommonFiles :
                            \/ Changed(bForceTransfer, InfoOf(aInfo, f).etag,
                                       md5Checksum(ReadFile(dir, f)))
                            \/ IsManifest(f) },
         old |-> OldS3Files(setBuild, setS3)]
\* ---------------------------------------------------------- maintainVersions
Min(a, b) == IF a <= b THEN a ELSE b

\* searchList(sKey, aOldS3Files) is not False: any index, 0 included, is not
\* False, so the test is membership
InOldFiles(sKey, aOld) == sKey \in aOld

\* The first loop: the inventory is walked in dict order and left as soon as
\* iVersions manifests of the old list have been taken
SelectManifests(aInfo, aOld, iVersions) ==
    LET aTaken == SelectSeq(aInfo, LAMBDA o : IsManifest(o.key) /\ InOldFiles(o.key, aOld))
    IN  SubSeq(aTaken, 1, Min(iVersions, Len(aTaken)))

\* What one pass of the second loop appends to aExclude, given the body read
\* (ExcludeOf_urlsOnly: without the manifest's own key)
ExcludeOf_urlsOnly(oFile, sBody) == FindAllUrls(BytesStr(sBody))
ExcludeOf(oFile, sBody) == << oFile.key >> \o FindAllUrls(BytesStr(sBody))

\* list(set(aOldS3Files) - set(aExclude))
WithoutExcluded(aOld, aExcl) == aOld \ aExcl

\* maintainVersions as a whole, against a bucket that answers every get_object
maintainVersions(aInfo, aOld, iVersions, store, sPrefix) ==
    LET aKept == SelectManifests(aInfo, aOld, iVersions)
        aExcl == UNION { Range(ExcludeOf(aKept[i], store[JoinKey(sPrefix, aKept[i].key)].body)) :
                           i \in 1..Len(aKept) }
    IN  WithoutExcluded(aOld, aExcl)

\* --------------------------------------------------------------- transferFiles
\* The CacheControl of the put_object that transferFiles issues for a file
CacheControlFor(sFile) ==
    IF searchList(sFile, NO_CACHE_FILES) = NotFound THEN sCacheAlways ELSE sCacheNever

\* The bucket after put_object(Body, Bucket, CacheControl, ContentType, Key)
PutObject(store, sKey, sBody, sCache, t) ==
    [ k \in DOMAIN store \cup {sKey} |->
        IF k = sKey THEN S3Object(sBody, ETagOf(sBody), t, sCache) ELSE store[k] ]

\* The bucket after delete_object(Bucket, Key): deleting a missing key succeeds
DeleteObject(store, sKey) == [ k \in DOMAIN store \ {sKey} |-> store[k] ]

\* "if not self.oCmdOptions.bDryRun" of transferFiles, removeS3Files and
\* clearCloudFront: whether the remote call is made
\* (Performs_always: the flag ignored)
Performs_always(bDryRun) == TRUE
Performs(bDryRun) == ~bDryRun

\* ------------------------------------------------------------------ syncToS3
\* The two calls that end syncToS3, in program order
\* (SyncSteps_removeFirst: the two calls exchanged)
SyncSteps_removeFirst == << "remove", "transfer" >>
SyncSteps == << "transfer", "remove" >>

StepAfter(p) == IF p = SyncSteps[1] THEN SyncSteps[2] ELSE "clear"

\* "if self.oCmdOptions.iVersions and int(self.oCmdOptions.iVersions) > 0"
WantsVersions(o) == o.iVersions # 0 /\ o.iVersions > 0

Options == [bDryRun : BOOLEAN, bForceTransfer : BOOLEAN, bInvalidCFOnly : BOOLEAN,
            iVersions : 0..MaxVersions]

NoPrevious == [ended |-> "none", dry |-> FALSE, new |-> {}, old |-> {}]

Init ==
    /\ buildDir \in BuildDirs
    /\ \E b \in InitialBuckets : s3 = AsBucket(b)
    /\ oCmdOptions \in Options
    /\ pc = "sync"
    /\ run = 1
    /\ now = MaxTime + 1
    /\ aS3FileInfo = << >>
    /\ aNewBuildFiles = {}
    /\ aOldS3Files = {}
    /\ aManifests = << >>
    /\ aExclude = {}
    /\ iManifest = 0
    /\ transferred = {}
    /\ removed = {}
    /\ lastCall = "none"
    /\ s3Initial = s3
    /\ s3AtStart = s3
    /\ previous = NoPrevious

Fixed == UNCHANGED << buildDir, oCmdOptions, run, now, s3Initial, s3AtStart, previous >>

\* syncToS3 with --invalidation-only: returns at once
SyncInvalidationOnly ==
    /\ pc = "sync"
    /\ oCmdOptions.bInvalidCFOnly
    /\ pc' = "clear"
    /\ lastCall' = "none"
    /\ UNCHANGED << s3, aS3FileInfo, aNewBuildFiles, aOldS3Files, aManifests,
                    aExclude, iManifest, transferred, removed >>
    /\ Fixed

\* syncToS3 up to the first get_object: the two inventories, compareFiles and,
\* with --maintain-versions, the first loop of maintainVersions
ListAndCompare ==
    /\ pc = "sync"
    /\ ~oCmdOptions.bInvalidCFOnly
    /\ LET aInfo == getS3Files(s3, DeployPrefix)
           cmp   == compareFiles(buildDir, getCwdFiles(buildDir), aInfo,
                                 oCmdOptions.bForceTransfer)
       IN  /\ aS3FileInfo' = aInfo
           /\ aNewBuildFiles' = cmp.new
           /\ aOldS3Files' = cmp.old
           /\ IF WantsVersions(oCmdOptions)
              THEN /\ aManifests' = SelectManifests(aInfo, cmp.old, oCmdOptions.iVersions)
                   /\ pc' = "fetch"
              ELSE /\ aManifests' = << >>
                   /\ pc' = SyncSteps[1]
    /\ lastCall' = "list_objects_v2"
    /\ UNCHANGED << s3, aExclude, iManifest, transferred, removed >>
    /\ Fixed

\* One pass of the second loop of maintainVersions: get_object and findall
FetchManifest ==
    /\ pc = "fetch"
    /\ iManifest < Len(aManifests)
    /\ LET oFile == aManifests[iManifest + 1]
           sKey  == JoinKey(DeployPrefix, oFile.key)
       IN  /\ sKey \in DOMAIN s3
           /\ aExclude' = aExclude \cup Range(ExcludeOf(oFile, s3[sKey].body))
    /\ iManifest' = iManifest + 1
    /\ lastCall' = "get_object"
    /\ UNCHANGED << s3, pc, aS3FileInfo, aNewBuildFiles, aOldS3Files, aManifests,
                    transferred, removed >>
    /\ Fixed

\* The return of maintainVersions and the assignment of its result
FilterOldFiles ==
    /\ pc = "fetch"
    /\ iManifest = Len(aManifests)
    /\ aOldS3Files' = WithoutExcluded(aOldS3Files, aExclude)
    /\ pc' = SyncSteps[1]
    /\ lastCall' = "none"
    /\ UNCHANGED << s3, aS3FileInfo, aNewBuildFiles, aManifests, aExclude, iManifest,
                    transferred, removed >>
    /\ Fixed

\* One pass of the loop of transferFiles
TransferFile ==
    /\ pc = "transfer"
    /\ \E sFile \in aNewBuildFiles \ transferred :
         /\ transferred' = transferred \cup {sFile}
         /\ IF Performs(oCmdOptions.bDryRun)
            THEN /\ s3' = PutObject(s3, JoinKey(DeployPrefix, sFile),
                                    ReadFile(buildDir, sFile), CacheControlFor(sFile), now)
                 /\ lastCall' = "put_object"
            ELSE /\ s3' = s3
                 /\ lastCall' = "none"
    /\ UNCHANGED << pc, aS3FileInfo, aNewBuildFiles, aOldS3Files, aManifests, aExclude,
                    iManifest, removed >>
    /\ Fixed

\* The return of transferFiles
TransferReturn ==
    /\ pc = "transfer"
    /\ transferred = aNewBuildFiles
    /\ pc' = StepAfter("transfer")
    /\ lastCall' = "none"
    /\ UNCHANGED << s3, aS3FileInfo, aNewBuildFiles, aOldS3Files, aManifests, aExclude,
                    iManifest, transferred, removed >>
    /\ Fixed

\* One pass of the loop of removeS3Files
RemoveFile ==
    /\ pc = "remove"
    /\ \E sFile \in aOldS3Files \ removed :
         /\ removed' = removed \cup {sFile}
         /\ IF Performs(oCmdOptions.bDryRun)
            THEN /\ s3' = DeleteObject(s3, JoinKey(DeployPrefix, sFile))
                 /\ lastCall' = "delete_object"
            ELSE /\ s3' = s3
                 /\ lastCall' = "none"
    /\ UNCHANGED << pc, aS3FileInfo, aNewBuildFiles, aOldS3Files, aManifests, aExclude,
                    iManifest, transferred >>
    /\ Fixed

\* The return of removeS3Files
RemoveReturn ==
    /\ pc = "remove"
    /\ removed = aOldS3Files
    /\ pc' = StepAfter("remove")
    /\ lastCall' = "none"
    /\ UNCHANGED << s3, aS3FileInfo, aNewBuildFiles, aOldS3Files, aManifests, aExclude,
                    iManifest, transferred, removed >>
    /\ Fixed

\* clearCloudFront: the invalidation of '/*', unless --dry-run
ClearCloudFront ==
    /\ pc = "clear"
    /\ pc' = "done"
    /\ lastCall' = IF Performs(oCmdOptions.bDryRun) THEN "create_invalidation" ELSE "none"
    /\ UNCHANGED << s3, aS3FileInfo, aNewBuildFiles, aOldS3Files, aManifests, aExclude,
                    iManifest, transferred, removed >>
    /\ Fixed

\* The remote call the program is about to make, "none" when its next step
\* makes none
PendingCall ==
    CASE pc = "sync" /\ ~oCmdOptions.bInvalidCFOnly -> "list_objects_v2"
      [] pc = "fetch" /\ iManifest < Len(aManifests) -> "get_object"
      [] pc = "transfer" /\ transferred # aNewBuildFiles /\ Performs(oCmdOptions.bDryRun)
           -> "put_object"
      [] pc = "remove" /\ removed # aOldS3Files /\ Performs(oCmdOptions.bDryRun)
           -> "delete_object"
      [] pc = "clear" /\ Performs(oCmdOptions.bDryRun) -> "create_invalidation"
      [] OTHER -> "none"

\* A remote call raises (ClientError and the like): nothing catches it, the
\* process ends and its memory is gone; the bucket stays as the calls made so
\* far left it.  The failures considered are those after which the program
\* is started again.
RemoteError ==
    /\ PendingCall # "none"
    /\ run < MaxRuns
    /\ pc' = "aborted"
    /\ lastCall' = "error"
    /\ aS3FileInfo' = << >>
    /\ aNewBuildFiles' = {}
    /\ aOldS3Files' = {}
    /\ aManifests' = << >>
    /\ aExclude' = {}
    /\ iManifest' = 0
    /\ transferred' = {}
    /\ removed' = {}
    /\ UNCHANGED << buildDir, s3, oCmdOptions, run, now, s3Initial, s3AtStart, previous >>

\* The program is started again on the same build directory and deployment,
\* with the same flags, except that a dry run may be followed by a real one
Rerun ==
    /\ pc \in {"done", "aborted"}
    /\ run < MaxRuns
    /\ run' = run + 1
    /\ now' = now + 1
    /\ previous' = [ended |-> pc, dry |-> oCmdOptions.bDryRun,
                    new |-> aNewBuildFiles, old |-> aOldS3Files]
    /\ \E bDry \in {oCmdOptions.bDryRun, FALSE} :
         oCmdOptions' = [oCmdOptions EXCEPT !.bDryRun = bDry]
    /\ pc' = "sync"
    /\ lastCall' = "none"
    /\ aS3FileInfo' = << >>
    /\ aNewBuildFiles' = {}
    /\ aOldS3Files' = {}
    /\ aManifests' = << >>
    /\ aExclude' = {}
    /\ iManifest' = 0
    /\ transferred' = {}
    /\ removed' = {}
    /\ s3AtStart' = s3
    /\ UNCHANGED << buildDir, s3, s3Initial >>

Next ==
    \/ SyncInvalidationOnly
    \/ ListAndCompare
    \/ FetchManifest
    \/ FilterOldFiles
    \/ TransferFile
    \/ TransferReturn
    \/ RemoveFile
    \/ RemoveReturn
    \/ ClearCloudFront
    \/ RemoteError
    \/ Rerun

Spec == Init /\ [][Next]_vars
\* ===================================================================== claims
\* Vocabulary of the statements below, independent of the operators that
\* model the code's own string handling.
AllFiles == { INDEX, ASSETS, AJS, BJS, PM1, PM2, NESTEDPM }

\* The object key of each file and the path of each directory entry
ObjectKey == [ f \in AllFiles |-> JoinKey(DeployPrefix, f) ]
PathOf    == [ e \in UNION BuildDirs |-> StripDotSlash(e.root \o "/" \o e.file) ]

LocalKeys == { PathOf[e] : e \in buildDir }
RemoteKeys(store) == { f \in AllFiles : ObjectKey[f] \in DOMAIN store }
ObjectOf(store, f) == store[ObjectKey[f]]

\* The last component of a path
RECURSIVE FileName(_)
FileName(f) ==
    LET i == StrFind(f, "/", 1)
    IN  IF i = 0 THEN f ELSE FileName(SubSeq(f, i + 1, Len(f)))

\* The files whose key (their path below the build directory) begins with
\* the pattern, and those whose file name does, wherever the file lies
KeyManifests  == { f \in AllFiles : StartsWith(f, "precache-manifest") }
NameManifests == { f \in AllFiles : StartsWith(FileName(f), "precache-manifest") }
KeyIsManifest(f)  == f \in KeyManifests
NameIsManifest(f) == f \in NameManifests

\* The ETag of an object whose body is the local file's: "<md5>"
LocalETag == [ e \in UNION BuildDirs |-> "\"" \o md5Checksum(e.body) \o "\"" ]
SameChecksum(f) ==
    ObjectOf(s3AtStart, f).etag = LocalETag[CHOOSE e \in buildDir : PathOf[e] = f]

\* The asset paths a manifest body lists
ReferencedBy(sBody) ==
    CASE sBody = MF_A -> { AJS }
      [] sBody = MF_B -> { BJS, INDEX }
      [] OTHER -> {}

\* The run has compared the inventories / has fixed both of its lists
Compared == ~oCmdOptions.bInvalidCFOnly
            /\ pc \in {"fetch", "transfer", "remove", "clear", "done"}
Planned  == ~oCmdOptions.bInvalidCFOnly
            /\ pc \in {"transfer", "remove", "clear", "done"}
RealRun  == ~oCmdOptions.bDryRun /\ ~oCmdOptions.bInvalidCFOnly

\* The delete candidates of the run and the manifests among them
DeleteCandidates == RemoteKeys(s3AtStart) \ LocalKeys
ManifestCandidates == { f \in DeleteCandidates : KeyIsManifest(f) }
ModifiedOf(f) == ObjectOf(s3AtStart, f).modified

\* M is a choice of the n newest manifests among the delete candidates
IsNewest(M, n) ==
    /\ M \subseteq ManifestCandidates
    /\ Cardinality(M) = Min(n, Cardinality(ManifestCandidates))
    /\ \A m \in M : \A o \in ManifestCandidates \ M : ModifiedOf(m) >= ModifiedOf(o)

Protected(M) == M \cup UNION { ReferencedBy(ObjectOf(s3AtStart, m).body) : m \in M }

\* C1: with versionsToKeep = N > 0, the files passed to removeS3Files are the
\* delete candidates except the N newest manifests among them and the asset
\* paths these manifests list; once removeS3Files has returned in a real run,
\* exactly the other candidates are gone from the bucket.
C1_RetentionProtects ==
    (Planned /\ oCmdOptions.iVersions > 0) =>
        \E M \in SUBSET ManifestCandidates :
            /\ IsNewest(M, oCmdOptions.iVersions)
            /\ aOldS3Files = DeleteCandidates \ Protected(M)
            /\ removed \subseteq aOldS3Files
            /\ (RealRun /\ pc \in {"clear", "done"}) =>
                   RemoteKeys(s3) \cap DeleteCandidates = DeleteCandidates \cap Protected(M)

\* the example of the specification: m1 newest lists a.js, m2 older lists
\* b.js, N = 1, the run has finished
C1_Witness ==
    /\ RealRun /\ pc = "done" /\ oCmdOptions.iVersions = 1
    /\ {PM1, PM2, AJS, BJS} \subseteq DeleteCandidates
    /\ ModifiedOf(PM1) > ModifiedOf(PM2)
    /\ {PM1, AJS} \subseteq RemoteKeys(s3)
    /\ RemoteKeys(s3) \cap {PM2, BJS} = {}

\* C2: without --force-transfer, a file present on both sides whose MD5 is the
\* remote ETag and whose key does not begin with the manifest pattern is in
\* neither list.
C2_EqualChecksumNoOp ==
    (Compared /\ ~oCmdOptions.bForceTransfer) =>
        \A f \in LocalKeys \cap RemoteKeys(s3AtStart) :
            (SameChecksum(f) /\ ~KeyIsManifest(f))
            => (f \notin aNewBuildFiles /\ f \notin aOldS3Files)

C2_Witness ==
    /\ Compared /\ ~oCmdOptions.bForceTransfer
    /\ INDEX \in RemoteKeys(s3AtStart)
    /\ SameChecksum(INDEX)
    /\ aNewBuildFiles # {}
    /\ INDEX \notin aNewBuildFiles

\* C3: the upload list holds local files only, the delete list (before and
\* after maintainVersions) remote files that are not local, so the two are
\* disjoint and no object under a local key is ever deleted.
C3_Disjoint ==
    /\ Compared =>
         /\ aNewBuildFiles \subseteq LocalKeys
         /\ aOldS3Files \subseteq RemoteKeys(s3AtStart) \ LocalKeys
         /\ aNewBuildFiles \cap aOldS3Files = {}
         /\ removed \cap LocalKeys = {}
    /\ RemoteKeys(s3AtStart) \cap LocalKeys \subseteq RemoteKeys(s3)

C3_Witness ==
    /\ Planned /\ RealRun /\ oCmdOptions.iVersions > 0
    /\ pc = "done"
    /\ aNewBuildFiles # {} /\ aOldS3Files # {}
    /\ aOldS3Files # DeleteCandidates
    /\ RemoteKeys(s3AtStart) \cap LocalKeys # {}

\* C4: a dry run issues no put_object, delete_object or create_invalidation
\* and leaves the bucket as it found it; and the real run that follows a
\* finished dry run, on the same inputs, computes the lists the dry run
\* computed.
C4_DryRunNoEffects ==
    /\ oCmdOptions.bDryRun =>
         /\ s3 = s3AtStart
         /\ s3 = s3Initial
         /\ lastCall \notin {"put_object", "delete_object", "create_invalidation"}
    /\ (Planned /\ ~oCmdOptions.bDryRun /\ previous.ended = "done" /\ previous.dry) =>
         /\ aNewBuildFiles = previous.new
         /\ aOldS3Files = previous.old

C4_Witness ==
    /\ Planned /\ ~oCmdOptions.bDryRun /\ previous.ended = "done" /\ previous.dry
    /\ pc = "done"
    /\ previous.new # {} /\ previous.old # {}
    /\ oCmdOptions.iVersions > 0 /\ previous.old # DeleteCandidates
    /\ s3 # s3AtStart

\* The previous run was a real one and ran to its end
AfterAppliedRun == previous.ended = "done" /\ ~previous.dry

\* C5 as stated: the run after an applied run uploads manifest files only and
\* deletes nothing (read in the claim's favour: the file name may match the
\* pattern in any directory, the delete list is the one passed on to
\* removeS3Files).
C5_Original ==
    (Planned /\ AfterAppliedRun) =>
        /\ \A f \in aNewBuildFiles : NameIsManifest(f)
        /\ aOldS3Files = {}

\* C5 amended: without --force-transfer, the run after an applied run uploads
\* exactly the local files whose key begins with the manifest pattern, and
\* the delete list passed to removeS3Files is empty.
C5_Idempotent ==
    (Planned /\ AfterAppliedRun /\ ~oCmdOptions.bForceTransfer) =>
        /\ aNewBuildFiles = { f \in LocalKeys : KeyIsManifest(f) }
        /\ aOldS3Files = {}

C5_Witness ==
    /\ Planned /\ AfterAppliedRun /\ ~oCmdOptions.bForceTransfer
    /\ oCmdOptions.iVersions > 0
    /\ DeleteCandidates # {}
    /\ aNewBuildFiles = {PM2}
    /\ s3AtStart # s3Initial

\* C6: with --force-transfer the upload list is the whole local inventory,
\* files with an equal checksum included.
C6_ForceUploadsAll ==
    (Compared /\ oCmdOptions.bForceTransfer) => aNewBuildFiles = LocalKeys

C6_Witness ==
    /\ Compared /\ oCmdOptions.bForceTransfer
    /\ INDEX \in RemoteKeys(s3AtStart)
    /\ SameChecksum(INDEX)
    /\ INDEX \in aNewBuildFiles

\* C7: every file a real run has transferred lies in the bucket with the
\* never-cache policy if it is index.html or asset-manifest.json and with the
\* 90-day public policy otherwise.
C7_CachePolicy ==
    (RealRun /\ pc \in {"transfer", "remove", "clear", "done"}) =>
        \A f \in transferred :
            /\ f \in RemoteKeys(s3)
            /\ ObjectOf(s3, f).cache =
                 IF f \in {"index.html", "asset-manifest.json"}
                 THEN "max-age=0, no-cache, must-revalidate, proxy-revalidate, no-store"
                 ELSE "max-age=7776000, public"

C7_Witness ==
    /\ RealRun /\ pc = "done"
    /\ {INDEX, ASSETS, AJS} \subseteq transferred

\* C8: in a real run no delete precedes an upload, the invalidation follows
\* every upload and delete, and the delete list is final only after every
\* manifest kept has been fetched.
C8_Order ==
    /\ (removed # {} \/ lastCall = "delete_object") => transferred = aNewBuildFiles
    /\ pc = "transfer" => removed = {}
    /\ pc = "fetch" => (transferred = {} /\ removed = {})
    /\ (lastCall = "create_invalidation" /\ ~oCmdOptions.bInvalidCFOnly) =>
           (transferred = aNewBuildFiles /\ removed = aOldS3Files)
    /\ (Planned /\ oCmdOptions.iVersions > 0) =>
           /\ iManifest = Len(aManifests)
           /\ \A i \in 1..Len(aManifests) : aManifests[i].key \in aExclude

C8_Witness ==
    /\ RealRun /\ pc = "done" /\ lastCall = "create_invalidation"
    /\ oCmdOptions.iVersions > 0 /\ Len(aManifests) = 2
    /\ transferred # {} /\ removed # {}

\* C9 as stated: every file on both sides whose file name begins with
\* 'precache-manifest' is in the upload list.
C9_Original ==
    Compared => \A f \in LocalKeys \cap RemoteKeys(s3AtStart) :
                    NameIsManifest(f) => f \in aNewBuildFiles

\* C9 amended: every file on both sides whose key (its path below the build
\* directory) begins with 'precache-manifest' is in the upload list, also
\* without --force-transfer and with an equal checksum.
C9_ManifestAlwaysUploaded ==
    Compared => \A f \in LocalKeys \cap RemoteKeys(s3AtStart) :
                    KeyIsManifest(f) => f \in aNewBuildFiles

C9_Witness ==
    /\ Compared /\ ~oCmdOptions.bForceTransfer
    /\ PM2 \in LocalKeys \cap RemoteKeys(s3AtStart)
    /\ SameChecksum(PM2)
    /\ PM2 \in aNewBuildFiles

\* The bucket, key by key, a run leaves that starts from store and meets no
\* error
UninterruptedRun(store) ==
    LET aInfo == getS3Files(store, DeployPrefix)
        cmp   == compareFiles(buildDir, getCwdFiles(buildDir), aInfo,
                              oCmdOptions.bForceTransfer)
        aOld  == IF WantsVersions(oCmdOptions)
                 THEN maintainVersions(aInfo, cmp.old, oCmdOptions.iVersions,
                                       store, DeployPrefix)
                 ELSE cmp.old
        keys  == (DOMAIN store \cup { JoinKey(DeployPrefix, f) : f \in cmp.new })
                   \ { JoinKey(DeployPrefix, f) : f \in aOld }
    IN  [ k \in keys |->
            IF \E f \in cmp.new : k = JoinKey(DeployPrefix, f)
            THEN ReadFile(buildDir, CHOOSE f \in cmp.new : k = JoinKey(DeployPrefix, f))
            ELSE store[k].body ]

Bodies(store) == [ k \in DOMAIN store |-> store[k].body ]

\* C10: whatever remote calls failed in earlier starts, the real run that
\* reaches its end leaves the keys and bodies that a single run without
\* failure leaves, started from the bucket of the first start.
C10_RerunRecovers ==
    (RealRun /\ pc = "done") => Bodies(s3) = UninterruptedRun(s3Initial)

C10_Witness ==
    /\ RealRun /\ pc = "done"
    /\ previous.ended = "aborted" /\ ~previous.dry
    /\ s3AtStart # s3Initial
    /\ RemoteKeys(s3AtStart) # RemoteKeys(s3Initial)
    /\ oCmdOptions.iVersions = 1
    /\ s3 # s3AtStart
====
